---- MODULE Spec2Model ----
(***************************************************************************)
(* A model of the evernote-migration notebook pipeline                     *)
(* (src/src/evernote_migration.py, evernote_db.py, converters.py).         *)
(*                                                                         *)
(* Text is a sequence of tokens (strings).  A token is one character ("a", *)
(* "-", "?") or one lexeme the regular expressions treat as a unit         *)
(* ("evernote:", ".md", "title:").  Offsets are Python's: 0-based, and a   *)
(* span (b, e) is half-open.                                               *)
(***************************************************************************)
EXTENDS Integers, Sequences, FiniteSets, TLC

(***************************************************************************)
(* Bounds of the model.                                                    *)
(***************************************************************************)
MaxFolders == 2
MaxRows == 3
MaxTags == 2
MaxRefs == 2
MaxNameLen == 3
MaxDocs == 2
MaxAttachments == 2

(***************************************************************************)
(* Python values.                                                          *)
(***************************************************************************)
NoneStr == ""
NoDate == 0 - 1
NoFile == <<"<absent>">>

(***************************************************************************)
(* constants.py (not part of the sources; values taken from their uses:    *)
(* glob('*.md'), the attachments folder of the output layout).             *)
(***************************************************************************)
NOTE_EXTENSION == ".md"
ATTACHMENTS_FOLDER == "attachments/"

(***************************************************************************)
(* Sequence helpers.                                                       *)
(***************************************************************************)
Range(s) == {s[i] : i \in DOMAIN s}

\* Python slicing content[:b] + new + content[e:]
Splice(content, b, e, new) ==
    SubSeq(content, 1, b) \o new \o SubSeq(content, e + 1, Len(content))

Reverse(s) == [i \in 1..Len(s) |-> s[Len(s) + 1 - i]]

RECURSIVE Concat(_)
Concat(ss) == IF ss = <<>> THEN <<>> ELSE Head(ss) \o Concat(Tail(ss))

\* first index j >= i of s with s[j] \in stop, or Len(s) + 1
RECURSIVE FindTok(_, _, _)
FindTok(s, i, stop) ==
    IF i > Len(s) THEN Len(s) + 1
    ELSE IF s[i] \in stop THEN i
    ELSE FindTok(s, i + 1, stop)

\* whether pat occurs in s at (1-based) position i
OccursAt(s, pat, i) ==
    /\ i + Len(pat) - 1 <= Len(s)
    /\ \A k \in 1..Len(pat) : s[i + k - 1] = pat[k]

\* str.replace(old, new): every non-overlapping occurrence, left to right
RECURSIVE ReplaceFrom(_, _, _, _)
ReplaceFrom(s, old, new, i) ==
    IF i > Len(s) THEN <<>>
    ELSE IF OccursAt(s, old, i)
         THEN new \o ReplaceFrom(s, old, new, i + Len(old))
         ELSE <<s[i]>> \o ReplaceFrom(s, old, new, i + 1)

StrReplace(s, old, new) ==
    IF old = <<>> THEN s ELSE ReplaceFrom(s, old, new, 1)

\* str(count) in decimal
DigitChar == <<"0", "1", "2", "3", "4", "5", "6", "7", "8", "9">>

RECURSIVE Decimal(_)
Decimal(n) ==
    IF n < 10 THEN <<DigitChar[n + 1]>>
    ELSE Decimal(n \div 10) \o <<DigitChar[(n % 10) + 1]>>

(***************************************************************************)
(* converters.py                                                           *)
(***************************************************************************)
\* _REGEX_LEADING_DASH.sub(r'\g<name>', name), pattern ^-*(?P<name>.+)$ :
\* the dashes are taken greedily but .+ keeps at least one character.
RECURSIVE StripLeadingDash(_)
StripLeadingDash(name) ==
    IF Len(name) >= 2 /\ Head(name) = "-" THEN StripLeadingDash(Tail(name))
    ELSE name

DropChar(s, c) == SelectSeq(s, LAMBDA x : x # c)
MapChar(s, c, d) == [i \in DOMAIN s |-> IF s[i] = c THEN d ELSE s[i]]

standardize_note_name(name) ==
    DropChar(DropChar(MapChar(DropChar(DropChar(StripLeadingDash(name),
        "\""), "'"), "/", "-"), "?"), "!")

Lower(c) == CASE c = "A" -> "a" [] c = "B" -> "b" [] c = "F" -> "f" [] OTHER -> c

_standardize_tag(tag) ==
    LET stripped == DropChar(DropChar(tag, "-"), "_")
    IN  [i \in DOMAIN stripped |-> Lower(stripped[i])]

\* str.strip() then .strip("'")
RECURSIVE LStrip(_, _)
LStrip(s, cs) == IF s # <<>> /\ Head(s) \in cs THEN LStrip(Tail(s), cs) ELSE s

Strip(s, cs) == Reverse(LStrip(Reverse(LStrip(s, cs)), cs))

\* str.split(',')
RECURSIVE Split(_, _)
Split(s, sep) ==
    LET j == FindTok(s, 1, {sep})
    IN  IF j > Len(s) THEN <<s>>
        ELSE <<SubSeq(s, 1, j - 1)>> \o Split(SubSeq(s, j + 1, Len(s)), sep)

\* _REGEX_TAGS.search(content), pattern ^tags:\s*\[(?P<tags>[^\]]+)\]$ with
\* re.MULTILINE: the first line start where "tags:", optional white space,
\* "[", one or more tokens other than "]", "]" and a line end follow.
\* The result is the tags group, or <<>> when nothing matches.
TagsAt(content, i) ==
    LET afterKey == i + 1
        open == FindTok(content, afterKey, {t \in Range(content) : t \notin {" ", "\t", "\n"}})
        close == FindTok(content, open + 1, {"]", "]("})
    IN  IF /\ i <= Len(content)
           /\ content[i] = "tags:"
           /\ (i = 1 \/ content[i - 1] = "\n")
           /\ open <= Len(content)
           /\ content[open] = "["
           /\ close <= Len(content)
           /\ content[close] = "]"
           /\ close > open + 1
           /\ (close = Len(content) \/ content[close + 1] = "\n")
        THEN SubSeq(content, open + 1, close - 1)
        ELSE <<>>

RECURSIVE TagsSearch(_, _)
TagsSearch(content, i) ==
    IF i > Len(content) THEN <<>>
    ELSE IF TagsAt(content, i) # <<>> THEN TagsAt(content, i)
    ELSE TagsSearch(content, i + 1)

RECURSIVE ApplyTags(_, _)
ApplyTags(content, tags) ==
    IF tags = <<>> THEN content
    ELSE LET tag == Head(tags)
             tag_new == _standardize_tag(tag)
         IN  ApplyTags(IF tag_new # tag
                       THEN StrReplace(content, <<"#">> \o tag, <<"#">> \o tag_new)
                       ELSE content,
                       Tail(tags))

standardize_tags(content) ==
    LET m == TagsSearch(content, 1)
    IN  IF m = <<>> THEN content
        ELSE LET parts == Split(m, ",")
                 tags == [i \in DOMAIN parts |->
                            Strip(Strip(parts[i], {" ", "\t", "\n"}), {"'"})]
             IN  ApplyTags(content, tags)

(***************************************************************************)
(* extractors.py is not part of the sources.  Its patterns are modelled    *)
(* from the specification: two attachment reference kinds, each capturing  *)
(* a relative path; document links capturing url, id and label; metadata   *)
(* fields.  In the token text                                              *)
(*    "F(" path ")"                       is a generic file reference,     *)
(*    "I(" path ")"                       is an image reference,           *)
(*    "[" label "](" "evernote:" id ")"   is an in-app document link,      *)
(*    "[" label "](" "https:" "shard/" id ")"  is a web document link,     *)
(*    "[" label "](" "./" name ".md" ")"  is a link to a migrated note.    *)
(***************************************************************************)
StructToks == {"F(", "I(", "[", "](", "]", ")", "\n", "./", "evernote:", "https:",
               "shard/", "title:", "created:", "updated:", "source:", "tags:"}

ExtToks == {".md", ".png", ".pdf"}
DirToks == {"./", "d/", ATTACHMENTS_FOLDER}

REGEX_FILE == "F("
REGEX_IMAGE == "I("
REGEXES_NOTE_LINK == << <<"evernote:">>, <<"https:", "shard/">> >>

\* regex.finditer(content) for an attachment pattern: the matches in position
\* order, each with the span (b, e) of its path group
RECURSIVE RefMatches(_, _, _)
RefMatches(content, open, i) ==
    IF i > Len(content) THEN <<>>
    ELSE LET j == FindTok(content, i + 1, {")", "\n"})
         IN  IF content[i] = open /\ j <= Len(content) /\ content[j] = ")" /\ j > i + 1
             THEN <<[b |-> i, e |-> j - 1, path |-> SubSeq(content, i + 1, j - 1)]>>
                  \o RefMatches(content, open, j + 1)
             ELSE RefMatches(content, open, i + 1)

\* whether a document link of the pattern starts at (1-based) position i
LinkAt(content, scheme, i) ==
    /\ i + Len(scheme) + 4 <= Len(content)
    /\ content[i] = "["
    /\ content[i + 1] \notin StructToks
    /\ content[i + 2] = "]("
    /\ OccursAt(content, scheme, i + 3)
    /\ content[i + Len(scheme) + 3] \notin StructToks
    /\ content[i + Len(scheme) + 4] = ")"

\* regex.finditer(content) for a document link pattern: the span is the url
\* group's
RECURSIVE LinkMatches(_, _, _)
LinkMatches(content, scheme, i) ==
    IF i > Len(content) THEN <<>>
    ELSE IF LinkAt(content, scheme, i)
         THEN <<[b |-> i + 2, e |-> i + Len(scheme) + 3,
                 id |-> content[i + Len(scheme) + 3], label |-> content[i + 1]]>>
              \o LinkMatches(content, scheme, i + Len(scheme) + 5)
         ELSE LinkMatches(content, scheme, i + 1)

\* extract_notes_links(content): the targets of the links to migrated notes,
\* in position order
RECURSIVE NoteLinksFrom(_, _)
NoteLinksFrom(content, i) ==
    IF i > Len(content) THEN <<>>
    ELSE LET j == FindTok(content, i + 1, {"](", "[", "]", "\n"})
             k == FindTok(content, j + 2, {")", "\n"})
         IN  IF /\ content[i] = "["
                /\ j + 1 <= Len(content)
                /\ content[j] = "]("
                /\ content[j + 1] = "./"
                /\ k <= Len(content)
                /\ content[k] = ")"
                /\ k > j + 2
                /\ content[k - 1] = NOTE_EXTENSION
             THEN <<SubSeq(content, j + 1, k - 1)>> \o NoteLinksFrom(content, k + 1)
             ELSE NoteLinksFrom(content, i + 1)

extract_notes_links(content) == NoteLinksFrom(content, 1)

\* the value of the first "key value" field of the content, or NoneStr
ExtractField(content, key) ==
    LET i == FindTok(content, 1, {key})
    IN  IF i + 1 <= Len(content) /\ content[i + 1] \notin StructToks
        THEN content[i + 1] ELSE NoneStr

extract_title(content) == ExtractField(content, "title:")
extract_url(content) == ExtractField(content, "source:")

\* the date a date token denotes, in seconds since the epoch
ParseDate(tok) ==
    CASE tok = "t1" -> 1 [] tok = "t2" -> 2 [] tok = "t3" -> 3 [] OTHER -> NoDate

extract_date(key, content) == ParseDate(ExtractField(content, key))

(***************************************************************************)
(* os.path                                                                 *)
(***************************************************************************)
RECURSIVE Basename(_)
Basename(path) ==
    LET i == FindTok(path, 1, DirToks)
    IN  IF i > Len(path) THEN path ELSE Basename(SubSeq(path, i + 1, Len(path)))

\* os.path.splitext(name): (root, ext)
SplitExt(name) ==
    IF Len(name) >= 2 /\ name[Len(name)] \in ExtToks
    THEN <<SubSeq(name, 1, Len(name) - 1), <<name[Len(name)]>> >>
    ELSE <<name, <<>> >>

(***************************************************************************)
(* metadata.py                                                             *)
(***************************************************************************)
get_note_metadata(name, content) ==
    [id |-> NoneStr,
     name |-> name,
     title |-> extract_title(content),
     size |-> Len(content),
     url |-> extract_url(content),
     date_created |-> extract_date("created:", content),
     date_updated |-> extract_date("updated:", content)]

(***************************************************************************)
(* evernote_db.py                                                          *)
(***************************************************************************)
\* converters.normalize_string: accents removed
normalize_string(text) ==
    CASE text = "T1~" -> "T1" [] OTHER -> text

\* the loop of __finalize over the rows of Nodes_Note where deleted IS NULL
RECURSIVE FinalizeRows(_, _)
FinalizeRows(rows, map) ==
    IF rows = <<>> THEN map
    ELSE LET row == Head(rows)
             title == normalize_string(row.label)
             note_id == [id |-> row.id, date_created |-> row.created \div 1000]
         IN  FinalizeRows(Tail(rows),
                 IF title \in DOMAIN map
                 THEN [map EXCEPT ![title] = Append(@, note_id)]
                 ELSE map @@ (title :> <<note_id>>))

Finalize(rows) ==
    FinalizeRows(SelectSeq(rows, LAMBDA r : ~r.deleted), <<>>)

\* (mutant) several notes of one title and date: the first one is taken
get_id_from_note_first(map_title_2_id, title, date_created) ==
    IF title = NoneStr THEN NoneStr
    ELSE IF title \in DOMAIN map_title_2_id
    THEN LET note_ids == map_title_2_id[title]
         IN  IF Len(note_ids) = 1 THEN note_ids[1].id
             ELSE IF date_created # NoDate
             THEN LET candidates ==
                          SelectSeq(note_ids, LAMBDA n : n.date_created = date_created)
                  IN  IF Len(candidates) >= 1 THEN candidates[1].id ELSE NoneStr
             ELSE NoneStr
    ELSE NoneStr

get_id_from_note(map_title_2_id, title, date_created) ==
    IF title = NoneStr THEN NoneStr
    ELSE IF title \in DOMAIN map_title_2_id
    THEN LET note_ids == map_title_2_id[title]
         IN  IF Len(note_ids) = 1 THEN note_ids[1].id
             ELSE IF date_created # NoDate
             THEN LET candidates ==
                          SelectSeq(note_ids, LAMBDA n : n.date_created = date_created)
                  IN  IF Len(candidates) = 1 THEN candidates[1].id ELSE NoneStr
             ELSE NoneStr
    ELSE NoneStr

\* (mutant) an identifier keeps the first container registered for it
add_container_id_keep(map_id_2_container, container, id) ==
    IF id \in DOMAIN map_id_2_container
    THEN map_id_2_container
    ELSE map_id_2_container @@ (id :> container)

add_container_id(map_id_2_container, container, id) ==
    IF id \in DOMAIN map_id_2_container
    THEN [map_id_2_container EXCEPT ![id] = container]
    ELSE map_id_2_container @@ (id :> container)

get_container_from_id(map_id_2_container, id) ==
    IF id \in DOMAIN map_id_2_container THEN map_id_2_container[id] ELSE NoFile

(***************************************************************************)
(* evernote_migration.py: the pure parts                                   *)
(***************************************************************************)
\* str(uuid.uuid4()): the n-th fresh name
UuidName(n) == <<"uuid">> \o Decimal(n)

\* (mutant) the name is taken without looking whether it exists
ProbeFilenameUnchecked(note_name, count, existing, overwrite) ==
    note_name \o <<NOTE_EXTENSION>>

\* the while loop of _get_note_filename; existing is the set of paths of the
\* notebook folder
RECURSIVE ProbeFilename(_, _, _, _)
ProbeFilename(note_name, count, existing, overwrite) ==
    LET note_path == note_name \o <<NOTE_EXTENSION>>
    IN  IF note_path \in existing /\ ~overwrite
        THEN ProbeFilename(note_name \o <<"-">> \o Decimal(count + 1), count + 1,
                           existing, overwrite)
        ELSE note_path

\* (mutant) the name carries the number of the notes already in the notebook
_get_note_filename_numbered(note_folder, existing, overwrite) ==
    standardize_note_name(note_folder) \o <<"-">>
        \o Decimal(Cardinality({p \in existing : p[Len(p)] = NOTE_EXTENSION}))
        \o <<NOTE_EXTENSION>>

_get_note_filename(note_folder, existing, overwrite) ==
    ProbeFilename(standardize_note_name(note_folder), 0, existing, overwrite)

\* the body of `for match in matches[::-1]` of _standardize_note; acc holds
\* content, attachments (the rename table), metadata, copies, uuid and ok
\* (FALSE once shutil.copy or os.path.getsize has raised)
StandardizeMatch(match, acc, source_files, report_only) ==
    LET asset_path == match.path
        known == asset_path \in DOMAIN acc.attachments
        ext == SplitExt(Basename(asset_path))[2]
        asset_name == UuidName(acc.uuid) \o ext
        asset_path_new == IF known THEN acc.attachments[asset_path]
                          ELSE <<ATTACHMENTS_FOLDER>> \o asset_name
    IN  IF ~known /\ asset_path \notin DOMAIN source_files
        THEN [acc EXCEPT !.ok = FALSE]
        ELSE [content |-> Splice(acc.content, match.b, match.e, asset_path_new),
              attachments |-> IF known THEN acc.attachments
                              ELSE acc.attachments @@ (asset_path :> asset_path_new),
              metadata |-> IF known THEN acc.metadata
                           ELSE Append(acc.metadata,
                                       [name |-> asset_name,
                                        size |-> source_files[asset_path]]),
              copies |-> IF known \/ report_only THEN acc.copies
                         ELSE acc.copies @@ (asset_name :> asset_path),
              uuid |-> IF known THEN acc.uuid ELSE acc.uuid + 1,
              ok |-> TRUE]

RECURSIVE StandardizeMatches(_, _, _, _)
StandardizeMatches(matches, acc, source_files, report_only) ==
    IF matches = <<>> \/ ~acc.ok THEN acc
    ELSE StandardizeMatches(Tail(matches),
                            StandardizeMatch(Head(matches), acc, source_files, report_only),
                            source_files, report_only)

\* one turn of `for regex in [REGEX_FILE, REGEX_IMAGE]`: the rename table
\* starts empty for each pattern
StandardizeRegex(regex, acc, source_files, report_only) ==
    IF ~acc.ok THEN acc
    ELSE StandardizeMatches(Reverse(RefMatches(acc.content, regex, 1)),
                            [acc EXCEPT !.attachments = <<>>],
                            source_files, report_only)

\* lines 130-168 of _standardize_note
StandardizeAttachments(content, source_files, uuid0, report_only) ==
    StandardizeRegex(REGEX_IMAGE,
        StandardizeRegex(REGEX_FILE,
            [content |-> content, attachments |-> <<>>, metadata |-> <<>>,
             copies |-> <<>>, uuid |-> uuid0, ok |-> TRUE],
            source_files, report_only),
        source_files, report_only)

\* the body of `for match in matches[::-1]` of _process_note_links; acc holds
\* content and is_dirty
ProcessLinkMatch(match, acc, map_id_2_container) ==
    LET single_note_path == get_container_from_id(map_id_2_container, match.id)
    IN  IF single_note_path = NoFile THEN acc
        ELSE [content |-> Splice(acc.content, match.b, match.e,
                                 <<"./">> \o single_note_path),
              is_dirty |-> TRUE]

RECURSIVE ProcessLinkMatches(_, _, _)
ProcessLinkMatches(matches, acc, map_id_2_container) ==
    IF matches = <<>> THEN acc
    ELSE ProcessLinkMatches(Tail(matches),
                            ProcessLinkMatch(Head(matches), acc, map_id_2_container),
                            map_id_2_container)

\* (mutant) the matches are applied from the first to the last
MatchOrderForward(matches) == matches

\* the order in which the matches of one pattern are applied
MatchOrder(matches) == Reverse(matches)

RECURSIVE ProcessLinkRegexes(_, _, _)
ProcessLinkRegexes(regexes, acc, map_id_2_container) ==
    IF regexes = <<>> THEN acc
    ELSE ProcessLinkRegexes(Tail(regexes),
             ProcessLinkMatches(MatchOrder(LinkMatches(acc.content, Head(regexes), 1)),
                                acc, map_id_2_container),
             map_id_2_container)

\* lines 253-272 of _process_note_links, for one note
RewriteLinks(content, map_id_2_container) ==
    ProcessLinkRegexes(REGEXES_NOTE_LINK, [content |-> content, is_dirty |-> FALSE],
                       map_id_2_container)

\* (mutant) a note is listed once for each note it links to
RECURSIVE AddBacklinksOnce(_, _, _)
AddBacklinksOnce(containers, note_name, map_backlinks) ==
    IF containers = <<>> THEN map_backlinks
    ELSE LET container == Head(containers)
         IN  AddBacklinksOnce(Tail(containers), note_name,
                 IF container \in DOMAIN map_backlinks.vals
                 THEN IF note_name \in Range(map_backlinks.vals[container])
                      THEN map_backlinks
                      ELSE [map_backlinks EXCEPT !.vals[container] = Append(@, note_name)]
                 ELSE [keys |-> Append(map_backlinks.keys, container),
                       vals |-> map_backlinks.vals @@ (container :> <<note_name>>)])

\* lines 290-300 of _process_backlinks, for one note; map_backlinks is a dict:
\* keys in insertion order, vals
RECURSIVE AddBacklinks(_, _, _)
AddBacklinks(containers, note_name, map_backlinks) ==
    IF containers = <<>> THEN map_backlinks
    ELSE LET container == Head(containers)
         IN  AddBacklinks(Tail(containers), note_name,
                 IF container \in DOMAIN map_backlinks.vals
                 THEN [map_backlinks EXCEPT !.vals[container] = Append(@, note_name)]
                 ELSE [keys |-> Append(map_backlinks.keys, container),
                       vals |-> map_backlinks.vals @@ (container :> <<note_name>>)])

ScanNoteBacklinks(content, note_name, map_backlinks) ==
    LET links == extract_notes_links(content)
        containers == [i \in DOMAIN links |-> Basename(links[i])]
    IN  AddBacklinks(containers, note_name, map_backlinks)

BacklinkItem(backlink) ==
    <<"- ", "[">> \o SplitExt(backlink)[1] \o <<"](", "./">> \o backlink \o <<")", "\n">>

_inject_backlinks(backlinks, content) ==
    content \o <<"\n", "---", "\n", "\n">> \o <<"## Backlinks", "\n", "\n">>
        \o Concat([i \in DOMAIN backlinks |-> BacklinkItem(backlinks[i])])

\* __finalize: the scan happens once
EnsureFinalized(db, rows) ==
    IF db.is_finalized THEN db
    ELSE [db EXCEPT !.is_finalized = TRUE,
                    !.map_title_2_id = FinalizeRows(SelectSeq(rows, LAMBDA r : ~r.deleted), @)]

\* lines 185-200 of _standardize_note: the identifier linkage, with db1 the
\* database after __finalize and id what get_id_from_note returned
LinkNote(att, content, single_note_path, meta, db1, id) ==
    [ok |-> TRUE,
     copies |-> att.copies,
     uuid |-> att.uuid,
     content |-> content,
     single_note_path |-> single_note_path,
     note_metadata |-> [meta EXCEPT !.id = id],
     attachments_metadata |-> att.metadata,
     db |-> IF id # NoneStr
            THEN [db1 EXCEPT !.map_id_2_container =
                      add_container_id(@, Basename(single_note_path), id)]
            ELSE db1]

LookupNote(config, att, content, single_note_path, meta, db1) ==
    LinkNote(att, content, single_note_path, meta, db1,
             IF config.is_connected
             THEN get_id_from_note(db1.map_title_2_id, meta.title, meta.date_created)
             ELSE NoneStr)

\* lines 181-184 of _standardize_note
DescribeNote(config, db0, rows, att, content, single_note_path, meta) ==
    LookupNote(config, att, content, single_note_path, meta,
               IF config.is_connected /\ meta.title # NoneStr
               THEN EnsureFinalized(db0, rows) ELSE db0)

\* lines 170-179 of _standardize_note
NameNote(config, db0, rows, att, content, single_note_path) ==
    DescribeNote(config, db0, rows, att, content, single_note_path,
                 get_note_metadata(Basename(single_note_path), content))

FinishNote(note_folder, existing, config, db0, rows, att) ==
    IF ~att.ok
    THEN [ok |-> FALSE, copies |-> att.copies, uuid |-> att.uuid, db |-> db0]
    ELSE NameNote(config, db0, rows, att, standardize_tags(att.content),
                  _get_note_filename(note_folder, existing, config.overwrite))

\* _standardize_note(note_folder): source is the note's folder (has_body,
\* body, files), existing the paths of the notebook folder.  ok is FALSE when
\* the call raised; copies and uuid are the attachments copied until then.
_standardize_note(note_folder, source, existing, config, uuid0, db0, rows) ==
    IF ~source.has_body
    THEN [ok |-> FALSE, copies |-> <<>>, uuid |-> uuid0, db |-> db0]
    ELSE FinishNote(note_folder, existing, config, db0, rows,
                    StandardizeAttachments(source.body, source.files, uuid0,
                                           config.report_only))

(***************************************************************************)
(* report.py: the rows add_report_csv appends                              *)
(***************************************************************************)
_format_datetime(dt) ==
    CASE dt = 1 -> "t1" [] dt = 2 -> "t2" [] dt = 3 -> "t3" [] OTHER -> NoneStr

ReportRow(note_metadata, attachment_name, attachment_size) ==
    [id |-> note_metadata.id,
     name |-> note_metadata.name,
     title |-> note_metadata.title,
     date_created |-> _format_datetime(note_metadata.date_created),
     date_updated |-> _format_datetime(note_metadata.date_updated),
     size |-> note_metadata.size,
     attachment_name |-> attachment_name,
     attachment_size |-> attachment_size]

add_report_csv(rows, note_metadata, attachments_metadata) ==
    IF attachments_metadata = <<>>
    THEN Append(rows, ReportRow(note_metadata, <<>>, NoDate))
    ELSE rows \o [i \in DOMAIN attachments_metadata |->
                    ReportRow(note_metadata, attachments_metadata[i].name,
                              attachments_metadata[i].size)]

\* datetime.strptime(text, _DATETIME_FORMAT) raises ValueError on a text that
\* is no date, the empty text that csv writes for None included
StrptimeRaises(text) == text \notin {"t1", "t2", "t3"}

strptime(text) == CASE text = "t1" -> 1 [] text = "t2" -> 2 [] text = "t3" -> 3

_get_note_metadata_from_line(line) ==
    [id |-> line.id,
     name |-> line.name,
     title |-> line.title,
     size |-> line.size,
     url |-> NoneStr,
     date_created |-> strptime(line.date_created),
     date_updated |-> strptime(line.date_updated)]

_get_attachment_metadata_from_line(line) ==
    [name |-> line.attachment_name, size |-> line.attachment_size]

\* line 126: the line starts a new note
NewNote(has_note, note, line) == ~has_note \/ note.body.name # line.name

\* the loop of read_report_csv, lines 123-137, and lines 139-143; ok is FALSE
\* when the call raised
RECURSIVE ReadLines(_, _, _, _)
ReadLines(lines, notes, has_note, note) ==
    IF lines = <<>>
    THEN [ok |-> TRUE, notes |-> IF has_note THEN Append(notes, note) ELSE notes]
    ELSE IF /\ NewNote(has_note, note, Head(lines))
            /\ \/ StrptimeRaises(Head(lines).date_created)
               \/ StrptimeRaises(Head(lines).date_updated)
    THEN [ok |-> FALSE, notes |-> <<>>]
    ELSE LET line == Head(lines)
             new == NewNote(has_note, note, line)
             note1 == IF new
                      THEN [body |-> _get_note_metadata_from_line(line),
                            attachments |-> <<>>]
                      ELSE note
         IN  ReadLines(Tail(lines),
                       IF new /\ has_note THEN Append(notes, note) ELSE notes,
                       TRUE,
                       IF line.attachment_name # <<>>
                       THEN [note1 EXCEPT !.attachments =
                                Append(@, _get_attachment_metadata_from_line(line))]
                       ELSE note1)

read_report_csv(lines) ==
    ReadLines(lines, <<>>, FALSE, [body |-> <<>>, attachments |-> <<>>])

(***************************************************************************)
(* evernote_move.py: the pure parts.  A folder is a function from the      *)
(* paths of its files to their contents.                                   *)
(***************************************************************************)
\* _filter_notes: the notes updated at or after the threshold, all without one
_filter_notes(notes, date_updated) ==
    IF date_updated = NoDate THEN notes
    ELSE SelectSeq(notes, LAMBDA r : r.body.date_updated # NoDate
                                     /\ r.body.date_updated >= date_updated)

\* the paths _move_note hands to _move_file for one note: the note, then its
\* attachments
NotePaths(note) ==
    <<note.body.name>>
        \o [k \in DOMAIN note.attachments |->
                <<ATTACHMENTS_FOLDER>> \o note.attachments[k].name]

\* (mutant) the destination file is replaced
_move_file_replacing(source, dest, path) ==
    IF path \in DOMAIN source
    THEN [raised |-> FALSE, moved |-> TRUE,
          source |-> [p \in DOMAIN source \ {path} |-> source[p]],
          dest |-> [p \in DOMAIN dest \cup {path} |->
                       IF p = path THEN source[path] ELSE dest[p]]]
    ELSE [raised |-> FALSE, moved |-> FALSE, source |-> source, dest |-> dest]

\* _move_file(source_path, dest_path) on the folders source and dest
_move_file(source, dest, path) ==
    IF path \in DOMAIN source
    THEN IF path \in DOMAIN dest
         THEN [raised |-> TRUE, moved |-> FALSE, source |-> source, dest |-> dest]
         ELSE [raised |-> FALSE, moved |-> TRUE,
               source |-> [p \in DOMAIN source \ {path} |-> source[p]],
               dest |-> dest @@ (path :> source[path])]
    ELSE [raised |-> FALSE, moved |-> FALSE, source |-> source, dest |-> dest]

(***************************************************************************)
(* The notebooks and the Evernote database of the model.                   *)
(***************************************************************************)
BodyA == <<"title:", "T1", "\n", "created:", "t1", "\n",
           "[", "L", "](", "evernote:", "id2", ")", "\n",
           "F(", "x", ".pdf", ")", "F(", "x", ".pdf", ")", "I(", "y", ".png", ")">>

BodyB == <<"title:", "T2", "\n", "created:", "t1", "\n",
           "[", "L", "](", "evernote:", "id1", ")",
           "[", "M", "](", "evernote:", "id2", ")",
           "[", "N", "](", "https:", "shard/", "id1", ")",
           "[", "P", "](", "evernote:", "id9", ")">>

BodyD == <<"title:", "T1", "\n", "F(", "z", ".png", ")", "I(", "z", ".png", ")">>

BodyE == <<"title:", "T2", "\n",
           "tags:", " ", "[", "A", "-", "b", ",", " ", "'", "c", "'", "]", "\n",
           "#", "A", "-", "b", " ", "[", "Q", "](", "evernote:", "id9", ")">>

\* refers to an attachment that its folder does not have
BodyG == <<"title:", "T9", "\n", "F(", "x", ".pdf", ")", "I(", "q", ".png", ")">>

BodyOld == <<"old", "[", "R", "](", "evernote:", "id1", ")">>

Catalogue ==
    {[name |-> <<"a">>, has_body |-> TRUE, body |-> BodyA,
      files |-> (<<"x", ".pdf">> :> 7) @@ (<<"y", ".png">> :> 5)],
     [name |-> <<"a", "?">>, has_body |-> TRUE, body |-> BodyB, files |-> <<>>],
     [name |-> <<"b">>, has_body |-> TRUE, body |-> BodyD,
      files |-> (<<"z", ".png">> :> 3)],
     [name |-> <<"a", "-", "1">>, has_body |-> TRUE, body |-> BodyE, files |-> <<>>],
     [name |-> <<"c">>, has_body |-> FALSE, body |-> <<>>, files |-> <<>>],
     [name |-> <<"d">>, has_body |-> TRUE, body |-> BodyG,
      files |-> (<<"x", ".pdf">> :> 7)]}

\* the rows of Nodes_Note: id, label, created (milliseconds), deleted
DbRows ==
    <<[id |-> "id1", label |-> "T1~", created |-> 1000, deleted |-> FALSE],
      [id |-> "id2", label |-> "T2", created |-> 1999, deleted |-> FALSE],
      [id |-> "id3", label |-> "T2", created |-> 2500, deleted |-> FALSE],
      [id |-> "id4", label |-> "T1", created |-> 1000, deleted |-> TRUE]>>

StaleReport == <<[id |-> "stale", name |-> <<"stale", ".md">>, title |-> NoneStr,
                  date_created |-> NoneStr, date_updated |-> NoneStr, size |-> 0,
                  attachment_name |-> <<>>, attachment_size |-> NoDate]>>

Configs ==
    {c \in [overwrite : BOOLEAN, keep : BOOLEAN, report_only : BOOLEAN,
            report_path : BOOLEAN, is_connected : BOOLEAN] :
        c.report_only => c.report_path}

Notebooks ==
    {S \in SUBSET Catalogue : Cardinality(S) <= MaxFolders}

(***************************************************************************)
(* The state of a run.                                                     *)
(***************************************************************************)
VARIABLES
    config,       \* the arguments of EvernoteMigration
    rows,         \* the Evernote database (read-only)
    folders,      \* the source folders of the notebook: name -> folder
    files,        \* the note files of the notebook: name -> content
    attachments,  \* the attachments folder: exists, files (name -> copied path)
    report,       \* the report file: exists, rows
    db,           \* EvernoteDB: is_finalized, map_title_2_id, map_id_2_container
    uuid,         \* the number of the next fresh uuid
    pc,           \* where process() stands
    todo,         \* the folders the per-note loop has still to visit
    note_files,   \* the note files the current pass has still to visit
    map_backlinks,\* the dict of _process_backlinks: keys (insertion order), vals
    hist,         \* history of the run (not program state)
    call          \* a single call of a function, outside a run: op, arguments, result

vars == <<config, rows, folders, files, attachments, report, db, uuid, pc, todo,
          note_files, map_backlinks, hist, call>>

NoCall == [op |-> "none"]

Hist0 ==
    [order |-> <<>>,        \* the folders standardized, in order
     out |-> <<>>,          \* folder -> what _standardize_note made of it
     files0 |-> <<>>,       \* the note files before the run
     folders0 |-> {},       \* the source folders before the run
     lookups |-> {},        \* the ids get_container_from_id was asked for
     early |-> FALSE,       \* a lookup happened with a folder still to visit
     pre_links |-> <<>>,    \* the note files when the link pass started
     saved |-> {},          \* the notes the link pass saved
     post_links |-> <<>>,   \* the note files when the backlink pass started
     scan |-> <<>>,         \* the notes the backlink pass scanned, in order
     injected |-> <<>>,     \* the notes the backlink pass saved, in order
     failed |-> NoFile]     \* the folder whose standardization raised

InitWith(notebooks, old_files, configs) ==
    /\ config \in configs
    /\ rows = DbRows
    /\ \E S \in notebooks : folders = [n \in {f.name : f \in S} |->
                                          CHOOSE f \in S : f.name = n]
    /\ files \in old_files
    /\ attachments = [exists |-> FALSE, files |-> <<>>]
    /\ report = [exists |-> TRUE, rows |-> StaleReport]
    /\ db = [is_finalized |-> FALSE, map_title_2_id |-> <<>>,
             map_id_2_container |-> <<>>]
    /\ uuid = 1
    /\ pc = "start"
    /\ todo = {}
    /\ note_files = {}
    /\ map_backlinks = [keys |-> <<>>, vals |-> <<>>]
    /\ hist = [Hist0 EXCEPT !.files0 = files, !.folders0 = DOMAIN folders]
    /\ call = NoCall

OldFiles == {<<>>, (<<"a", ".md">> :> BodyOld)}

Init == InitWith(Notebooks, OldFiles, Configs)

(***************************************************************************)
(* EvernoteMigration.process, step by step.                                *)
(***************************************************************************)
\* os.path.exists of a path of the notebook folder
Existing == DOMAIN files \cup DOMAIN folders

\* (mutant) the attachments folder is made in report-only mode too
SetupAlwaysMkdir ==
    /\ pc = "start"
    /\ attachments' = [attachments EXCEPT !.exists = TRUE]
    /\ report' = IF config.report_path /\ report.exists
                 THEN [exists |-> FALSE, rows |-> <<>>] ELSE report
    /\ todo' = DOMAIN folders
    /\ pc' = "scan"
    /\ UNCHANGED <<call, config, rows, folders, files, db, uuid, note_files,
                   map_backlinks, hist>>

\* process(), lines 204-214: the attachments folder, the fresh report, the
\* listing of the source folders
Setup ==
    /\ pc = "start"
    /\ attachments' = IF ~config.report_only
                      THEN [attachments EXCEPT !.exists = TRUE] ELSE attachments
    /\ report' = IF config.report_path /\ report.exists
                 THEN [exists |-> FALSE, rows |-> <<>>] ELSE report
    /\ todo' = DOMAIN folders
    /\ pc' = "scan"
    /\ UNCHANGED <<call, config, rows, folders, files, db, uuid, note_files,
                   map_backlinks, hist>>

\* (mutant) a folder whose standardization raised is skipped and the loop
\* goes on
RaisedFolderSkipped(folder) ==
    /\ pc' = "scan"
    /\ todo' = todo \ {folder}
    /\ hist' = [hist EXCEPT !.failed = folder]
    /\ UNCHANGED <<files, report, folders>>

\* (mutant) the folder is removed although _standardize_note raised
RaisedFolderDeleted(folder) ==
    /\ pc' = "aborted"
    /\ hist' = [hist EXCEPT !.failed = folder]
    /\ folders' = IF ~config.report_only /\ ~config.keep
                  THEN [n \in DOMAIN folders \ {folder} |-> folders[n]]
                  ELSE folders
    /\ UNCHANGED <<files, report, todo>>

\* lines 219-222: _standardize_note raised; nothing catches the exception,
\* which leaves process()
RaisedFolder(folder) ==
    /\ pc' = "aborted"
    /\ hist' = [hist EXCEPT !.failed = folder]
    /\ UNCHANGED <<files, report, folders, todo>>

\* one turn of the loop of lines 215-238 once _standardize_note has returned r
\* (or raised: r.ok is FALSE)
StandardizedFolder(folder, r) ==
    /\ uuid' = r.uuid
    /\ attachments' = [attachments EXCEPT !.files = @ @@
                          [n \in DOMAIN r.copies |->
                              [folder |-> folder, path |-> r.copies[n]]]]
    /\ db' = r.db
    /\ IF ~r.ok
       THEN RaisedFolder(folder)
       ELSE /\ pc' = "scan"
            /\ files' = IF config.report_only THEN files
                        ELSE IF r.single_note_path \in DOMAIN files
                        THEN [files EXCEPT ![r.single_note_path] = r.content]
                        ELSE files @@ (r.single_note_path :> r.content)
            /\ report' = IF config.report_path
                         THEN [exists |-> TRUE,
                               rows |-> add_report_csv(report.rows, r.note_metadata,
                                                       r.attachments_metadata)]
                         ELSE report
            /\ folders' = IF ~config.report_only /\ ~config.keep
                          THEN [n \in DOMAIN folders \ {folder} |-> folders[n]]
                          ELSE folders
            /\ todo' = todo \ {folder}
            /\ hist' = [hist EXCEPT
                   !.order = Append(@, folder),
                   !.out = @ @@ (folder :>
                       [body |-> folders[folder].body,
                        content |-> r.content,
                        name |-> r.single_note_path,
                        id |-> r.note_metadata.id,
                        metadata |-> r.attachments_metadata,
                        copies |-> r.copies,
                        existed |-> r.single_note_path \in Existing,
                        files_before |-> files])]

\* one turn of the loop of lines 215-238, which visits the folders in the
\* order of a Python set
StandardizeFolder(folder) ==
    /\ pc = "scan"
    /\ folder \in todo
    /\ StandardizedFolder(folder,
           _standardize_note(folder, folders[folder], Existing, config, uuid, db, rows))
    /\ UNCHANGED <<call, config, rows, note_files, map_backlinks>>

\* (mutant) the passes are started from inside the loop
EndScanEarly ==
    /\ pc = "scan"
    /\ IF config.report_only \/ ~config.is_connected
       THEN /\ todo = {}
            /\ pc' = "done"
            /\ UNCHANGED <<note_files, hist>>
       ELSE /\ pc' = "links"
            /\ note_files' = DOMAIN files
            /\ hist' = [hist EXCEPT !.pre_links = files]
    /\ UNCHANGED <<call, config, rows, folders, files, attachments, report, db, uuid,
                   todo, map_backlinks>>

\* lines 240-251: after the loop; both passes return at once without a
\* database
EndScan ==
    /\ pc = "scan"
    /\ todo = {}
    /\ IF config.report_only \/ ~config.is_connected
       THEN /\ pc' = "done"
            /\ UNCHANGED <<note_files, hist>>
       ELSE /\ pc' = "links"
            /\ note_files' = DOMAIN files
            /\ hist' = [hist EXCEPT !.pre_links = files]
    /\ UNCHANGED <<call, config, rows, folders, files, attachments, report, db, uuid, todo,
                   map_backlinks>>

\* the ids the link pass asks get_container_from_id for, in one note
AskedIds(content) ==
    UNION {{m.id : m \in Range(LinkMatches(content, REGEXES_NOTE_LINK[k], 1))} :
              k \in DOMAIN REGEXES_NOTE_LINK}

\* (mutant) the note is saved whether or not a link was rewritten
SaveAlways(note_path, r, asked) ==
    /\ files' = [files EXCEPT ![note_path] = r.content]
    /\ hist' = [hist EXCEPT
           !.lookups = @ \cup asked,
           !.early = @ \/ (asked # {} /\ todo # {}),
           !.saved = @ \cup {note_path}]

\* lines 274-278: the note is saved when a link was rewritten
SaveRewritten(note_path, r, asked) ==
    /\ files' = IF r.is_dirty /\ ~config.report_only
                THEN [files EXCEPT ![note_path] = r.content] ELSE files
    /\ hist' = [hist EXCEPT
           !.lookups = @ \cup asked,
           !.early = @ \/ (asked # {} /\ todo # {}),
           !.saved = IF r.is_dirty /\ ~config.report_only
                     THEN @ \cup {note_path} ELSE @]

\* one turn of the loop of lines 252-278, which visits the notes in glob's
\* order
ProcessNoteLinks(note_path) ==
    /\ pc = "links"
    /\ note_path \in note_files
    /\ SaveRewritten(note_path, RewriteLinks(files[note_path], db.map_id_2_container),
                     AskedIds(files[note_path]))
    /\ note_files' = note_files \ {note_path}
    /\ UNCHANGED <<call, config, rows, folders, attachments, report, db, uuid, pc, todo,
                   map_backlinks>>

\* lines 280-289: the link pass is over, the backlink pass lists the notes
EndLinks ==
    /\ pc = "links"
    /\ note_files = {}
    /\ pc' = "backlinks"
    /\ note_files' = DOMAIN files
    /\ map_backlinks' = [keys |-> <<>>, vals |-> <<>>]
    /\ hist' = [hist EXCEPT !.post_links = files]
    /\ UNCHANGED <<call, config, rows, folders, files, attachments, report, db, uuid, todo>>

\* one turn of the loop of lines 290-300
ScanBacklinks(note_path) ==
    /\ pc = "backlinks"
    /\ note_path \in note_files
    /\ map_backlinks' = ScanNoteBacklinks(files[note_path], Basename(note_path),
                                          map_backlinks)
    /\ note_files' = note_files \ {note_path}
    /\ hist' = [hist EXCEPT !.scan = Append(@, note_path)]
    /\ UNCHANGED <<call, config, rows, folders, files, attachments, report, db, uuid, pc,
                   todo>>

EndBacklinkScan ==
    /\ pc = "backlinks"
    /\ note_files = {}
    /\ pc' = "inject"
    /\ UNCHANGED <<call, config, rows, folders, files, attachments, report, db, uuid, todo,
                   note_files, map_backlinks, hist>>

\* one turn of the loop of lines 302-306, which visits the dict in insertion
\* order; load_note_content raises when the note is missing
InjectBacklinks ==
    /\ pc = "inject"
    /\ map_backlinks.keys # <<>>
    /\ LET container == Head(map_backlinks.keys)
       IN  IF container \notin DOMAIN files
           THEN /\ pc' = "aborted"
                /\ UNCHANGED <<files, map_backlinks, hist>>
           ELSE /\ files' = [files EXCEPT ![container] =
                                 _inject_backlinks(map_backlinks.vals[container], @)]
                /\ map_backlinks' = [map_backlinks EXCEPT !.keys = Tail(@)]
                /\ hist' = [hist EXCEPT !.injected = Append(@, container)]
                /\ pc' = "inject"
    /\ UNCHANGED <<call, config, rows, folders, attachments, report, db, uuid, todo,
                   note_files>>

Finish ==
    /\ pc = "inject"
    /\ map_backlinks.keys = <<>>
    /\ pc' = "done"
    /\ UNCHANGED <<call, config, rows, folders, files, attachments, report, db, uuid, todo,
                   note_files, map_backlinks, hist>>

Next ==
    \/ Setup
    \/ \E folder \in todo : StandardizeFolder(folder)
    \/ EndScan
    \/ \E note_path \in note_files : ProcessNoteLinks(note_path)
    \/ EndLinks
    \/ \E note_path \in note_files : ScanBacklinks(note_path)
    \/ EndBacklinkScan
    \/ InjectBacklinks
    \/ Finish

Spec == Init /\ [][Next]_vars

(***************************************************************************)
(* Two runs of main() on the same notebook, the same arguments and the     *)
(* same database; each run visits the folders in an order of its own.      *)
(***************************************************************************)
\* a note without the digits of the uuid4 names in it, which no two runs share
RECURSIVE WithoutUuids(_, _, _)
WithoutUuids(content, i, in_uuid) ==
    IF i > Len(content) THEN <<>>
    ELSE IF in_uuid /\ content[i] \in Range(DigitChar)
    THEN WithoutUuids(content, i + 1, TRUE)
    ELSE <<content[i]>> \o WithoutUuids(content, i + 1, content[i] = "uuid")

\* what a run leaves: the name given to each folder, the identifier map and
\* the notes; with it the order of the folders and of the backlink scan
RunResult ==
    [pc |-> pc,
     order |-> hist.order,
     scan |-> hist.scan,
     names |-> [f \in DOMAIN hist.out |-> hist.out[f].name],
     map_id_2_container |-> db.map_id_2_container,
     notes |-> [n \in DOMAIN files |-> WithoutUuids(files[n], 1, FALSE)]]

\* main() is started again on a copy of the notebook as it was: a new
\* EvernoteDB, a new EvernoteMigration; the first run is kept in call
Restart ==
    /\ pc \in {"done", "aborted"}
    /\ call = NoCall
    /\ call' = [op |-> "process", result |-> RunResult]
    /\ folders' = [n \in hist.folders0 |-> CHOOSE f \in Catalogue : f.name = n]
    /\ files' = hist.files0
    /\ attachments' = [exists |-> FALSE, files |-> <<>>]
    /\ report' = [exists |-> TRUE, rows |-> StaleReport]
    /\ db' = [is_finalized |-> FALSE, map_title_2_id |-> <<>>,
              map_id_2_container |-> <<>>]
    /\ uuid' = 1
    /\ pc' = "start"
    /\ todo' = {}
    /\ note_files' = {}
    /\ map_backlinks' = [keys |-> <<>>, vals |-> <<>>]
    /\ hist' = [Hist0 EXCEPT !.files0 = hist.files0, !.folders0 = hist.folders0]
    /\ UNCHANGED <<config, rows>>

NextOrder ==
    \/ Next
    \/ Restart

\* the runs that write notes; the report is not compared
InitOrder ==
    InitWith(Notebooks, OldFiles, {c \in Configs : ~c.report_only /\ ~c.report_path})

SpecOrder == InitOrder /\ [][NextOrder]_vars

(***************************************************************************)
(* A single call of EvernoteDB.get_id_from_note on a database of at most   *)
(* MaxRows notes.                                                          *)
(***************************************************************************)
IdleRun ==
    /\ config = [overwrite |-> FALSE, keep |-> FALSE, report_only |-> FALSE,
                 report_path |-> FALSE, is_connected |-> TRUE]
    /\ folders = <<>>
    /\ files = <<>>
    /\ attachments = [exists |-> FALSE, files |-> <<>>]
    /\ report = [exists |-> FALSE, rows |-> <<>>]
    /\ uuid = 1
    /\ pc = "idle"
    /\ todo = {}
    /\ note_files = {}
    /\ map_backlinks = [keys |-> <<>>, vals |-> <<>>]
    /\ hist = Hist0

IdName == <<"id1", "id2", "id3", "id4", "id5", "id6">>

RowKinds == [label : {"T1~", "T2"}, created : {1999, 2000}, deleted : BOOLEAN]

RowSeqs ==
    UNION {{[i \in 1..n |-> [id |-> IdName[i], label |-> k[i].label,
                             created |-> k[i].created, deleted |-> k[i].deleted]] :
               k \in [1..n -> RowKinds]} : n \in 0..MaxRows}

InitLookup ==
    /\ IdleRun
    /\ rows \in RowSeqs
    /\ db = [is_finalized |-> FALSE, map_title_2_id |-> <<>>,
             map_id_2_container |-> <<>>]
    /\ \E title \in {NoneStr, "T1", "T9"}, date_created \in {NoDate, 1, 2, 3} :
          call = [op |-> "get_id_from_note", title |-> title,
                  date_created |-> date_created, done |-> FALSE, result |-> NoneStr]

\* get_id_from_note(title, date_created), lines 119-139
Lookup ==
    /\ call.op = "get_id_from_note"
    /\ ~call.done
    /\ db' = IF call.title # NoneStr THEN EnsureFinalized(db, rows) ELSE db
    /\ call' = [call EXCEPT !.done = TRUE,
                            !.result = get_id_from_note(db'.map_title_2_id, call.title,
                                                        call.date_created)]
    /\ UNCHANGED <<config, rows, folders, files, attachments, report, uuid, pc, todo,
                   note_files, map_backlinks, hist>>

SpecLookup == InitLookup /\ [][Lookup]_vars

(***************************************************************************)
(* A single call of standardize_tags on a note with a tags line of at most *)
(* MaxTags tags and MaxRefs inline references after it.                    *)
(***************************************************************************)
TagPool ==
    {<<"f", "-", "b">>, <<"F", "_", "B">>, <<"f", "b">>,
     <<"f", "-", "b", "-", "a">>, <<"a">>}

\* a tag as it is written in the list: bare, or between quotes
QuoteStyles == {"", "'", "\""}

RECURSIVE JoinTags(_, _)
JoinTags(tags, quote) ==
    IF tags = <<>> THEN <<>>
    ELSE (IF quote = "" THEN Head(tags) ELSE <<quote>> \o Head(tags) \o <<quote>>)
         \o (IF Tail(tags) = <<>> THEN <<>>
             ELSE <<",", " ">> \o JoinTags(Tail(tags), quote))

\* the note: the line tags: [t1, t2], then the references #r1 #r2
TaggedNote(tags, quote, refs) ==
    <<"tags:", " ", "[">> \o JoinTags(tags, quote) \o <<"]", "\n">>
        \o Concat([k \in DOMAIN refs |-> <<" ", "#">> \o refs[k]])

InitTags ==
    /\ IdleRun
    /\ rows = <<>>
    /\ db = [is_finalized |-> FALSE, map_title_2_id |-> <<>>,
             map_id_2_container |-> <<>>]
    /\ \E n \in 1..MaxTags, quote \in QuoteStyles :
          \E tags \in [1..n -> TagPool], refs \in [1..MaxRefs -> TagPool] :
              call = [op |-> "standardize_tags", tags |-> tags, quote |-> quote,
                      refs |-> refs, content |-> TaggedNote(tags, quote, refs),
                      done |-> FALSE, result |-> <<>>]

\* standardize_tags(content), lines 42-51
StandardizeTags ==
    /\ call.op = "standardize_tags"
    /\ ~call.done
    /\ call' = [call EXCEPT !.done = TRUE, !.result = standardize_tags(call.content)]
    /\ UNCHANGED <<config, rows, folders, files, attachments, report, db, uuid, pc, todo,
                   note_files, map_backlinks, hist>>

SpecTags == InitTags /\ [][StandardizeTags]_vars

(***************************************************************************)
(* A single call of standardize_note_name on a name of at most MaxNameLen  *)
(* characters.                                                             *)
(***************************************************************************)
NameChars == {"a", "-", "\"", "'", "/", "?", "!"}

Names == UNION {[1..n -> NameChars] : n \in 0..MaxNameLen}

InitName ==
    /\ IdleRun
    /\ rows = <<>>
    /\ db = [is_finalized |-> FALSE, map_title_2_id |-> <<>>,
             map_id_2_container |-> <<>>]
    /\ \E name \in Names :
          call = [op |-> "standardize_note_name", name |-> name, done |-> FALSE,
                  result |-> <<>>]

\* standardize_note_name(name), lines 13-20
StandardizeName ==
    /\ call.op = "standardize_note_name"
    /\ ~call.done
    /\ call' = [call EXCEPT !.done = TRUE, !.result = standardize_note_name(call.name)]
    /\ UNCHANGED <<config, rows, folders, files, attachments, report, db, uuid, pc, todo,
                   note_files, map_backlinks, hist>>

SpecName == InitName /\ [][StandardizeName]_vars

(***************************************************************************)
(* A report written by at most MaxDocs calls of add_report_csv, each for a *)
(* note with at most MaxAttachments attachments, then read back by         *)
(* read_report_csv.                                                        *)
(***************************************************************************)
ReportNotes ==
    [id : {NoneStr}, name : {<<"a", ".md">>, <<"b", ".md">>}, title : {"T1"},
     size : {4}, url : {NoneStr}, date_created : {NoDate, 1}, date_updated : {NoDate, 2}]

ReportAttachments ==
    UNION {[1..n -> [name : {<<"uuid", "1", ".pdf">>, <<"uuid", "2", ".png">>},
                     size : {3}]] : n \in 0..MaxAttachments}

InitReport ==
    /\ IdleRun
    /\ rows = <<>>
    /\ db = [is_finalized |-> FALSE, map_title_2_id |-> <<>>,
             map_id_2_container |-> <<>>]
    /\ call = [op |-> "report", docs |-> <<>>, lines |-> <<>>, done |-> FALSE,
               result |-> [ok |-> TRUE, notes |-> <<>>]]

\* add_report_csv(report_path, note_metadata, attachments_metadata)
WriteReport(note_metadata, attachments_metadata) ==
    /\ call.op = "report"
    /\ ~call.done
    /\ Len(call.docs) < MaxDocs
    /\ call' = [call EXCEPT
           !.docs = Append(@, [body |-> note_metadata,
                               attachments |-> attachments_metadata]),
           !.lines = add_report_csv(@, note_metadata, attachments_metadata)]
    /\ UNCHANGED <<config, rows, folders, files, attachments, report, db, uuid, pc, todo,
                   note_files, map_backlinks, hist>>

\* read_report_csv(report_path)
ReadReport ==
    /\ call.op = "report"
    /\ ~call.done
    /\ call.docs # <<>>
    /\ call' = [call EXCEPT !.done = TRUE, !.result = read_report_csv(call.lines)]
    /\ UNCHANGED <<config, rows, folders, files, attachments, report, db, uuid, pc, todo,
                   note_files, map_backlinks, hist>>

NextReport ==
    \/ \E note_metadata \in ReportNotes, attachments_metadata \in ReportAttachments :
          WriteReport(note_metadata, attachments_metadata)
    \/ ReadReport

SpecReport == InitReport /\ [][NextReport]_vars

(***************************************************************************)
(* A run of EvernoteMove.process on a notebook from which an earlier run   *)
(* has moved some files, to a destination that may hold files of its own.  *)
(***************************************************************************)
\* the notes read_report_csv returned
MoveNotes ==
    <<[body |-> [id |-> NoneStr, name |-> <<"a", ".md">>, title |-> "T1", size |-> 4,
                 url |-> NoneStr, date_created |-> 1, date_updated |-> 2],
       attachments |-> <<[name |-> <<"uuid", "1", ".pdf">>, size |-> 3],
                         [name |-> <<"uuid", "2", ".png">>, size |-> 3]>>],
      [body |-> [id |-> NoneStr, name |-> <<"b", ".md">>, title |-> "T2", size |-> 4,
                 url |-> NoneStr, date_created |-> 1, date_updated |-> 1],
       attachments |-> <<>>],
      [body |-> [id |-> NoneStr, name |-> <<"c", ".md">>, title |-> "T2", size |-> 4,
                 url |-> NoneStr, date_created |-> 1, date_updated |-> 3],
       attachments |-> <<[name |-> <<"uuid", "3", ".png">>, size |-> 3]>>]>>

\* the report of the migration that wrote these notes
RECURSIVE ReportOf(_)
ReportOf(notes) ==
    IF notes = <<>> THEN <<>>
    ELSE add_report_csv(ReportOf(SubSeq(notes, 1, Len(notes) - 1)),
                        notes[Len(notes)].body, notes[Len(notes)].attachments)

MoveReport == ReportOf(MoveNotes)

\* the paths the loop of process() hands to _move_file, in order
MovePaths(notes, date_updated) ==
    Concat([i \in DOMAIN _filter_notes(notes, date_updated) |->
               NotePaths(_filter_notes(notes, date_updated)[i])])

MoveFiles == UNION {Range(NotePaths(MoveNotes[i])) : i \in DOMAIN MoveNotes}

\* where a file of the notebook is: still in the notebook, moved by the
\* earlier run, or in the notebook while the destination has a file of its
\* own under that name
Places == [MoveFiles -> {"source", "moved", "both"}]

InitMove ==
    /\ IdleRun
    /\ rows = <<>>
    /\ db = [is_finalized |-> FALSE, map_title_2_id |-> <<>>,
             map_id_2_container |-> <<>>]
    /\ \E place \in Places, date_updated \in {NoDate, 2} :
          LET source == [p \in {q \in MoveFiles : place[q] # "moved"} |-> "notebook"]
              dest == [p \in {q \in MoveFiles : place[q] # "source"} |->
                          IF place[p] = "moved" THEN "notebook" ELSE "other"]
          IN  call = [op |-> "move", date_updated |-> date_updated, pc |-> "start",
                      source |-> source, dest |-> dest,
                      source0 |-> source, dest0 |-> dest,
                      paths |-> <<>>, moved |-> {}]

\* process(), lines 55-63: the report is read, the notes to move are chosen
StartMove ==
    /\ call.op = "move"
    /\ call.pc = "start"
    /\ call' = [call EXCEPT
           !.pc = IF read_report_csv(MoveReport).ok THEN "move" ELSE "raised",
           !.paths = IF read_report_csv(MoveReport).ok
                     THEN MovePaths(read_report_csv(MoveReport).notes, call.date_updated)
                     ELSE <<>>]
    /\ UNCHANGED <<config, rows, folders, files, attachments, report, db, uuid, pc, todo,
                   note_files, map_backlinks, hist>>

\* one call of _move_file once it has returned (or raised) r
MovedFile(path, r) ==
    call' = [call EXCEPT
        !.pc = IF r.raised THEN "raised" ELSE "move",
        !.source = r.source,
        !.dest = r.dest,
        !.paths = Tail(@),
        !.moved = IF r.moved THEN @ \cup {path} ELSE @]

\* the loops of lines 67-69 and 101-114, one call of _move_file at a time
MoveFile ==
    /\ call.op = "move"
    /\ call.pc = "move"
    /\ call.paths # <<>>
    /\ MovedFile(Head(call.paths), _move_file(call.source, call.dest, Head(call.paths)))
    /\ UNCHANGED <<config, rows, folders, files, attachments, report, db, uuid, pc, todo,
                   note_files, map_backlinks, hist>>

EndMove ==
    /\ call.op = "move"
    /\ call.pc = "move"
    /\ call.paths = <<>>
    /\ call' = [call EXCEPT !.pc = "done"]
    /\ UNCHANGED <<config, rows, folders, files, attachments, report, db, uuid, pc, todo,
                   note_files, map_backlinks, hist>>

NextMove ==
    \/ StartMove
    \/ MoveFile
    \/ EndMove

SpecMove == InitMove /\ [][NextMove]_vars

(***************************************************************************)
(* Properties.                                                             *)
(***************************************************************************)
PosOf(seq, x) == CHOOSE i \in DOMAIN seq : seq[i] = x

\* the notes the link pass has visited, and what it left of each
LinkPassed ==
    IF pc = "links" THEN DOMAIN hist.pre_links \ note_files ELSE DOMAIN hist.post_links

LinkedContent(n) == IF pc = "links" THEN files[n] ELSE hist.post_links[n]

\* C1: the link pass and the backlink pass run only once every source folder
\* has been standardized and every identifier has been registered: no
\* identifier is looked up while a folder is still to visit, and no link to a
\* note of the run stays unresolved, whatever the order of the folders.
C1_PassesAfterStandardization ==
    /\ ~hist.early
    /\ pc \in {"links", "backlinks", "inject"} =>
          /\ todo = {}
          /\ DOMAIN hist.out = hist.folders0
          /\ \A f \in DOMAIN hist.out :
                hist.out[f].id # NoneStr => hist.out[f].id \in DOMAIN db.map_id_2_container
    /\ \A n \in LinkPassed : \A f \in DOMAIN hist.out :
          hist.out[f].id # NoneStr => hist.out[f].id \notin AskedIds(LinkedContent(n))

\* a note links to a note standardized after it, and the link was rewritten
C1_ForwardReference ==
    /\ pc = "done"
    /\ \E f, g \in DOMAIN hist.out :
          /\ PosOf(hist.order, f) < PosOf(hist.order, g)
          /\ hist.out[f].name # hist.out[g].name
          /\ hist.out[g].id \in AskedIds(hist.out[f].content)
          /\ hist.out[f].name \in DOMAIN hist.post_links
          /\ hist.out[g].id \notin AskedIds(hist.post_links[hist.out[f].name])

\* C2: with overwrite disabled the per-note loop writes a note only under a
\* name that does not exist yet: the notes of the run have distinct names and
\* the notes written or found before keep their content.
C2_NoOverwrite ==
    ~config.overwrite =>
        /\ \A f \in DOMAIN hist.out : ~hist.out[f].existed
        /\ ~config.report_only =>
              \A f, g \in DOMAIN hist.out : f # g => hist.out[f].name # hist.out[g].name
        /\ pc = "scan" =>
              /\ \A n \in DOMAIN hist.files0 :
                    n \in DOMAIN files /\ files[n] = hist.files0[n]
              /\ ~config.report_only =>
                    \A f \in DOMAIN hist.out :
                        /\ hist.out[f].name \in DOMAIN files
                        /\ files[hist.out[f].name] = hist.out[f].content

\* two folders of one name, and a note of that name from before the run
C2_Collision ==
    /\ ~config.overwrite
    /\ ~config.report_only
    /\ pc = "scan"
    /\ hist.files0 # <<>>
    /\ \E f, g \in DOMAIN hist.out :
          /\ f # g
          /\ standardize_note_name(f) = standardize_note_name(g)
          /\ standardize_note_name(f) \o <<NOTE_EXTENSION>> \in DOMAIN hist.files0

\* base, base-1, base-2, ...
Candidate(base, j) ==
    IF j = 0 THEN base \o <<NOTE_EXTENSION>>
    ELSE base \o <<"-">> \o Decimal(j) \o <<NOTE_EXTENSION>>

FirstFree(base, existing) ==
    Candidate(base, CHOOSE j \in 0..Cardinality(existing) :
                        /\ Candidate(base, j) \notin existing
                        /\ \A i \in 0..(j - 1) : Candidate(base, i) \in existing)

\* C3: the name of a note is the first of base, base-1, base-2, ... that
\* does not exist; with overwrite enabled it is base.
C3_ProbesBaseThenSuffixes ==
    \A f \in DOMAIN hist.out :
        hist.out[f].name =
            IF config.overwrite THEN Candidate(standardize_note_name(f), 0)
            ELSE FirstFree(standardize_note_name(f), DOMAIN hist.out[f].files_before)

\* the notes of the database that bear the title asked for, and those of them
\* created at the date asked for
Candidates ==
    {i \in DOMAIN rows : ~rows[i].deleted /\ normalize_string(rows[i].label) = call.title}

DateMatches == {i \in Candidates : rows[i].created \div 1000 = call.date_created}

TheId(S) == rows[CHOOSE i \in S : TRUE].id

\* C4: get_id_from_note returns nothing for a title without candidate, the
\* candidate's id when there is one candidate (whatever the date), and with
\* several candidates the id of the one created at the given date when
\* exactly one is, nothing otherwise (no date, none or several at that date).
C4_LookupRule ==
    (call.op = "get_id_from_note" /\ call.done) =>
        call.result =
            IF Candidates = {} THEN NoneStr
            ELSE IF Cardinality(Candidates) = 1 THEN TheId(Candidates)
            ELSE IF call.date_created = NoDate THEN NoneStr
            ELSE IF Cardinality(DateMatches) = 1 THEN TheId(DateMatches)
            ELSE NoneStr

\* a call that the date decides, among several notes of the title
C4_Disambiguated ==
    /\ call.op = "get_id_from_note"
    /\ call.done
    /\ Cardinality(Candidates) > 1
    /\ Cardinality(DateMatches) = 1
    /\ call.result = TheId(DateMatches)

\* the paths of the attachments a body refers to
DistinctPaths(body) ==
    {m.path : m \in Range(RefMatches(body, REGEX_FILE, 1))
                    \cup Range(RefMatches(body, REGEX_IMAGE, 1))}

AllRefs(content) ==
    RefMatches(content, REGEX_FILE, 1) \o RefMatches(content, REGEX_IMAGE, 1)

\* C5: a note gets one attachment record, and one copy, for each distinct
\* path its body refers to, of whichever kinds the references are, and all
\* the references to one path are rewritten to one new path.
C5_OneRecordPerPath ==
    \A f \in DOMAIN hist.out :
        LET before == AllRefs(hist.out[f].body)
            after == AllRefs(hist.out[f].content)
        IN  /\ Len(hist.out[f].metadata) = Cardinality(DistinctPaths(hist.out[f].body))
            /\ ~config.report_only =>
                  Cardinality(DOMAIN hist.out[f].copies)
                      = Cardinality(DistinctPaths(hist.out[f].body))
            /\ Len(after) = Len(before)
            /\ \A i, j \in DOMAIN before :
                  before[i].path = before[j].path => after[i].path = after[j].path

\* the content with the url of every document link whose id has a container
\* replaced by the relative path of the container, read from left to right
RECURSIVE ExpectedLinks(_, _, _)
ExpectedLinks(content, i, containers) ==
    IF i > Len(content) THEN <<>>
    ELSE IF \E k \in DOMAIN REGEXES_NOTE_LINK : LinkAt(content, REGEXES_NOTE_LINK[k], i)
    THEN LET scheme == REGEXES_NOTE_LINK[CHOOSE k \in DOMAIN REGEXES_NOTE_LINK :
                                             LinkAt(content, REGEXES_NOTE_LINK[k], i)]
             last == i + Len(scheme) + 3
         IN  SubSeq(content, i, i + 2)
             \o (IF content[last] \in DOMAIN containers
                 THEN <<"./">> \o containers[content[last]]
                 ELSE SubSeq(content, i + 3, last))
             \o <<content[last + 1]>>
             \o ExpectedLinks(content, last + 2, containers)
    ELSE <<content[i]>> \o ExpectedLinks(content, i + 1, containers)

\* C6: the link pass replaces the url of every document link whose id has a
\* container by ./<container> and changes nothing else; a link whose id has
\* none is left as it was.
C6_LinksRewritten ==
    \A n \in LinkPassed :
        LinkedContent(n) = ExpectedLinks(hist.pre_links[n], 1, db.map_id_2_container)

\* a note with two resolved links of one pattern and an unresolved one
C6_SeveralLinks ==
    \E n \in LinkPassed :
        LET ms == LinkMatches(hist.pre_links[n], REGEXES_NOTE_LINK[1], 1)
        IN  /\ \E i, j \in DOMAIN ms :
                  /\ i < j
                  /\ ms[i].id \in DOMAIN db.map_id_2_container
                  /\ ms[j].id \in DOMAIN db.map_id_2_container
            /\ \E i \in DOMAIN ms : ms[i].id \notin DOMAIN db.map_id_2_container
            /\ LinkedContent(n) # hist.pre_links[n]

\* C7: the link pass saves a note if and only if one of its links was
\* rewritten; a note it does not save keeps its content.
C7_SavedIffRewritten ==
    \A n \in LinkPassed :
        /\ n \in hist.saved <=>
              \E id \in AskedIds(hist.pre_links[n]) : id \in DOMAIN db.map_id_2_container
        /\ n \notin hist.saved => LinkedContent(n) = hist.pre_links[n]

\* a note whose links all fail is left alone while another note is saved
C7_UnresolvedOnly ==
    \E n, m \in LinkPassed :
        /\ AskedIds(hist.pre_links[n]) # {}
        /\ n \notin hist.saved
        /\ LinkedContent(n) = hist.pre_links[n]
        /\ m \in hist.saved

\* the links between migrated notes after the link pass, in the order of the
\* backlink scan and, within a note, of position
ScannedLinks ==
    Concat([i \in DOMAIN hist.scan |->
               LET links == extract_notes_links(hist.post_links[hist.scan[i]])
               IN  [j \in DOMAIN links |->
                       [from |-> Basename(hist.scan[i]), to |-> Basename(links[j])]]])

ExpectedBacklinks(target) ==
    LET incoming == SelectSeq(ScannedLinks, LAMBDA l : l.to = target)
    IN  [i \in DOMAIN incoming |-> incoming[i].from]

\* C8: after the backlink pass a note that is the target of a link is its
\* content after the link pass followed by one backlink section, which lists
\* the linking notes in scan order, once for each link; the other notes are
\* as the link pass left them.
C8_BacklinkSection ==
    pc = "done" =>
        \A target \in DOMAIN hist.post_links :
            files[target] =
                IF ExpectedBacklinks(target) = <<>> THEN hist.post_links[target]
                ELSE _inject_backlinks(ExpectedBacklinks(target), hist.post_links[target])

\* a note linked from two notes, one of which links to it twice
C8_TwoSources ==
    /\ pc = "done"
    /\ \E target \in DOMAIN hist.post_links :
          LET backlinks == ExpectedBacklinks(target)
          IN  /\ Len(backlinks) >= 3
              /\ Cardinality(Range(backlinks)) >= 2
              /\ Len(SelectSeq(files[target], LAMBDA t : t = "## Backlinks")) = 1
    /\ \E other \in DOMAIN hist.post_links : files[other] = hist.post_links[other]

\* C9: every entry id -> container of the identifier map was registered by
\* the last standardized note for which get_id_from_note returned that id,
\* under the name of that note; a note without id registers nothing.
C9_ContainersOfStandardizedNotes ==
    /\ \A id \in DOMAIN db.map_id_2_container :
          \E i \in DOMAIN hist.order :
              /\ hist.out[hist.order[i]].id = id
              /\ db.map_id_2_container[id] = Basename(hist.out[hist.order[i]].name)
              /\ \A j \in DOMAIN hist.order : j > i => hist.out[hist.order[j]].id # id
    /\ \A f \in DOMAIN hist.out :
          hist.out[f].id # NoneStr => hist.out[f].id \in DOMAIN db.map_id_2_container
    /\ NoneStr \notin DOMAIN db.map_id_2_container

\* two notes of one id under different names, the later one registered
C9_LastWriteWins ==
    \E f, g \in DOMAIN hist.out :
        /\ PosOf(hist.order, f) < PosOf(hist.order, g)
        /\ hist.out[f].id = hist.out[g].id
        /\ hist.out[f].id # NoneStr
        /\ hist.out[f].name # hist.out[g].name
        /\ db.map_id_2_container[hist.out[g].id] = hist.out[g].name

\* two runs have gone through the three passes, and their backlink passes read
\* the notes in the same order
TwoRuns ==
    /\ call.op = "process"
    /\ call.result.pc = "done"
    /\ pc = "done"
    /\ call.result.scan = hist.scan

SameResult ==
    /\ RunResult.names = call.result.names
    /\ RunResult.map_id_2_container = call.result.map_id_2_container
    /\ RunResult.notes = call.result.notes

\* no two folders have the same standardized name, none has the name of a note
\* or a folder that is there before the run, and no two have the same id
NoClash ==
    /\ \A f, g \in hist.folders0 :
          f # g => standardize_note_name(f) # standardize_note_name(g)
    /\ \A f \in hist.folders0 :
          standardize_note_name(f) \o <<NOTE_EXTENSION>>
              \notin (DOMAIN hist.files0 \cup hist.folders0)
    /\ \A f, g \in DOMAIN hist.out :
          (f # g /\ hist.out[f].id # NoneStr) => hist.out[f].id # hist.out[g].id

\* C10 (as stated): two runs that visit the folders of one notebook in
\* different orders give each folder the same name and end with the same
\* identifier map and the same notes (the uuid4 names apart).
C10_OrderIndependent ==
    TwoRuns => SameResult

\* C10 (amended): the same, when no two folders share a standardized name or
\* an id and no folder has the name of a note that is already there.
C10_OrderIndependentWithoutClash ==
    (TwoRuns /\ NoClash) => SameResult

\* two runs in opposite orders over two notes with ids, links, backlinks and
\* an attachment
C10_OppositeOrders ==
    /\ TwoRuns
    /\ NoClash
    /\ call.result.order # hist.order
    /\ Cardinality(DOMAIN db.map_id_2_container) >= 2
    /\ hist.saved # {}
    /\ hist.injected # <<>>
    /\ \E f \in DOMAIN hist.out : hist.out[f].copies # <<>>

\* a source folder as it was before the run
SourceFolder(n) == CHOOSE f \in Catalogue : f.name = n

\* the content the per-note loop wrote last under the name n
LastWritten(n) ==
    LET last == CHOOSE i \in DOMAIN hist.order :
                    /\ hist.out[hist.order[i]].name = n
                    /\ \A j \in DOMAIN hist.order :
                          hist.out[hist.order[j]].name = n => j <= i
    IN  hist.out[hist.order[last]].content

\* C11: a folder without body file stops the run where the per-note loop
\* reaches it: no such folder is ever standardized and no pass runs in a
\* notebook that has one; after the stop the folder and those not yet visited
\* are still there, not standardized, and the notes written before are as the
\* loop wrote them.
C11_MissingBodyAborts ==
    /\ \A f \in DOMAIN hist.out : SourceFolder(f).has_body
    /\ pc \in {"links", "backlinks", "inject", "done"} =>
          \A f \in hist.folders0 : SourceFolder(f).has_body
    /\ (hist.failed # NoFile /\ ~SourceFolder(hist.failed).has_body) =>
          /\ pc = "aborted"
          /\ hist.failed \in todo
          /\ \A f \in todo : f \in DOMAIN folders /\ f \notin DOMAIN hist.out
          /\ hist.lookups = {}
          /\ hist.saved = {}
          /\ hist.pre_links = <<>>
          /\ hist.scan = <<>>
          /\ hist.injected = <<>>
          /\ \A n \in DOMAIN files :
                IF ~config.report_only /\ \E f \in DOMAIN hist.out : hist.out[f].name = n
                THEN files[n] = LastWritten(n)
                ELSE n \in DOMAIN hist.files0 /\ files[n] = hist.files0[n]
          /\ ~config.report_only =>
                \A f \in DOMAIN hist.out : hist.out[f].name \in DOMAIN files

\* the run stopped at a folder without body after it had written a note and
\* deleted that note's folder
C11_AbortedAfterFirst ==
    /\ pc = "aborted"
    /\ hist.failed # NoFile
    /\ ~SourceFolder(hist.failed).has_body
    /\ ~config.report_only
    /\ ~config.keep
    /\ config.is_connected
    /\ hist.order # <<>>
    /\ \A f \in DOMAIN hist.out :
          f \notin DOMAIN folders /\ hist.out[f].name \in DOMAIN files

\* the name and attachment columns of the report rows of the standardized
\* folders, in the order of the loop: one row for a note without attachment,
\* one row for each attachment otherwise
ExpectedReportColumns ==
    Concat([i \in DOMAIN hist.order |->
               LET out == hist.out[hist.order[i]]
               IN  IF out.metadata = <<>>
                   THEN <<[name |-> Basename(out.name), attachment_name |-> <<>>]>>
                   ELSE [k \in DOMAIN out.metadata |->
                            [name |-> Basename(out.name),
                             attachment_name |-> out.metadata[k].name]]])

\* C12: in report-only mode a run leaves the notebook as it was (no
\* attachments folder, no copy, no note written, no folder deleted) and runs
\* neither pass, while every folder it visits gets its rows in the report.
C12_ReportOnlyMutatesNothing ==
    config.report_only =>
        /\ attachments = [exists |-> FALSE, files |-> <<>>]
        /\ files = hist.files0
        /\ DOMAIN folders = hist.folders0
        /\ \A f \in DOMAIN folders : folders[f] = SourceFolder(f)
        /\ \A f \in DOMAIN hist.out : hist.out[f].copies = <<>>
        /\ pc \notin {"links", "backlinks", "inject"}
        /\ hist.lookups = {}
        /\ hist.saved = {}
        /\ hist.scan = <<>>
        /\ hist.injected = <<>>
        /\ pc = "done" => DOMAIN hist.out = hist.folders0
        /\ pc # "start" =>
              /\ Len(report.rows) = Len(ExpectedReportColumns)
              /\ \A i \in DOMAIN report.rows :
                    /\ report.rows[i].name = ExpectedReportColumns[i].name
                    /\ report.rows[i].attachment_name
                          = ExpectedReportColumns[i].attachment_name

\* a report-only run over two folders, one of them with attachments, in a
\* notebook that has a note already
C12_ReportOnlyRun ==
    /\ config.report_only
    /\ pc = "done"
    /\ Len(hist.order) >= 2
    /\ hist.files0 # <<>>
    /\ \E f \in DOMAIN hist.out : Len(hist.out[f].metadata) >= 2
    /\ Len(report.rows) >= 3

\* the inline references of a note made by TaggedNote, in order
InlineRefs(content) ==
    Tail(Split(SubSeq(content, FindTok(content, 1, {"\n"}) + 1, Len(content)), " "))

\* C13: every inline reference #token to a tag of the tags line whose
\* normalized form (lower case, no dash, no underscore) differs from the token
\* becomes #normalized.
C13_TagReferencesNormalized ==
    (call.op = "standardize_tags" /\ call.done) =>
        \A k \in DOMAIN call.refs :
            (/\ \E i \in DOMAIN call.tags : call.tags[i] = call.refs[k]
             /\ _standardize_tag(call.refs[k]) # call.refs[k])
            => InlineRefs(call.result)[k] = <<"#">> \o _standardize_tag(call.refs[k])

\* C14: the result of standardize_note_name is a name that
\* standardize_note_name leaves as it is.
C14_NameStandardizationIdempotent ==
    (call.op = "standardize_note_name" /\ call.done) =>
        standardize_note_name(call.result) = call.result

\* C15: read_report_csv gives back one entry for each note written by
\* add_report_csv, in order, under the note's name and with the note's
\* attachments in the order they were written.
C15_ReportRoundTrip ==
    (call.op = "report" /\ call.done) =>
        /\ call.result.ok
        /\ Len(call.result.notes) = Len(call.docs)
        /\ \A i \in DOMAIN call.docs :
              /\ call.result.notes[i].body.name = call.docs[i].body.name
              /\ call.result.notes[i].attachments = call.docs[i].attachments

\* the files of the notes the run selects
SelectedFiles ==
    UNION {Range(NotePaths(_filter_notes(MoveNotes, call.date_updated)[i])) :
              i \in DOMAIN _filter_notes(MoveNotes, call.date_updated)}

\* every file of the notebook is either still there or at the destination
PartlyMoved == DOMAIN call.source0 \cap DOMAIN call.dest0 = {}

\* C16: a run after an earlier run that moved some of the files never replaces
\* a file of the destination and raises only at a file that is in both
\* folders; when no file is in both it does not raise, and at its end every
\* selected file is at the destination and gone from the notebook, the files
\* not selected being where they were.
C16_MoveRerunSafe ==
    call.op = "move" =>
        /\ \A p \in DOMAIN call.dest0 :
              p \in DOMAIN call.dest /\ call.dest[p] = call.dest0[p]
        /\ \A p \in DOMAIN call.dest :
              p \in DOMAIN call.dest0 \/ (p \in call.moved /\ call.dest[p] = call.source0[p])
        /\ call.pc = "raised" => ~PartlyMoved
        /\ PartlyMoved =>
              /\ call.pc # "raised"
              /\ call.pc = "done" =>
                    /\ \A p \in SelectedFiles :
                          p \in DOMAIN call.dest /\ p \notin DOMAIN call.source
                    /\ \A p \in MoveFiles \ SelectedFiles :
                          /\ p \in DOMAIN call.source <=> p \in DOMAIN call.source0
                          /\ p \in DOMAIN call.dest <=> p \in DOMAIN call.dest0

\* the earlier run had moved a note without its attachments and an attachment
\* without its note; the run moved the rest
C16_RerunCompleted ==
    /\ call.op = "move"
    /\ call.pc = "done"
    /\ PartlyMoved
    /\ <<"a", ".md">> \in DOMAIN call.dest0
    /\ <<ATTACHMENTS_FOLDER, "uuid", "1", ".pdf">> \in DOMAIN call.source0
    /\ <<"c", ".md">> \in DOMAIN call.source0
    /\ <<ATTACHMENTS_FOLDER, "uuid", "3", ".png">> \in DOMAIN call.dest0
    /\ call.moved # {}
    /\ SelectedFiles \subseteq DOMAIN call.dest

\* C17: a folder that is gone was standardized to its end by a run that
\* neither keeps the folders nor only reports: its attachments are in the
\* attachments folder, its note is written and, with a report, its rows are
\* in it.  The folder at which _standardize_note raised is still there.
C17_DeletedAfterStandardized ==
    /\ DOMAIN folders \subseteq hist.folders0
    /\ (config.keep \/ config.report_only) => DOMAIN folders = hist.folders0
    /\ hist.failed # NoFile => hist.failed \in DOMAIN folders
    /\ \A f \in hist.folders0 \ DOMAIN folders :
          /\ f \in DOMAIN hist.out
          /\ f # hist.failed
          /\ {hist.out[f].copies[n] : n \in DOMAIN hist.out[f].copies}
                 = DistinctPaths(hist.out[f].body)
          /\ \A n \in DOMAIN hist.out[f].copies :
                /\ n \in DOMAIN attachments.files
                /\ attachments.files[n] = [folder |-> f, path |-> hist.out[f].copies[n]]
          /\ attachments.exists
          /\ hist.out[f].name \in DOMAIN files
          /\ pc = "scan" => files[hist.out[f].name] = LastWritten(hist.out[f].name)
          /\ config.report_path =>
                \E i \in DOMAIN report.rows :
                    report.rows[i].name = Basename(hist.out[f].name)

\* a folder with attachments is gone, and the run has stopped at a folder one
\* of whose attachments was copied before _standardize_note raised
C17_DeletedThenRaised ==
    /\ pc = "aborted"
    /\ config.report_path
    /\ hist.failed # NoFile
    /\ SourceFolder(hist.failed).has_body
    /\ \E n \in DOMAIN attachments.files : attachments.files[n].folder = hist.failed
    /\ \E f \in hist.folders0 \ DOMAIN folders : hist.out[f].copies # <<>>

====
